---- MODULE Spec2Model ----
(***************************************************************************)
(* Model of blockchain-frontend/src/App.js: the light-client part of the   *)
(* React front end (transaction hashing, Merkle-proof lookup and the       *)
(* client-side replay of a proof path) and the transaction form.           *)
(*                                                                         *)
(* Strings are sequences of character codes, so that JavaScript's          *)
(* lexicographic `<` and string concatenation are computed, not assumed.   *)
(* SHA-256 is idealised as a collision-free function: an injective         *)
(* encoding of its input that is not the identity.                         *)
(***************************************************************************)
EXTENDS Integers, Sequences, FiniteSets

VARIABLES sender, recipient, amount, message, txHashForProof,
          merkleProofResult, chain, shownHash, calls, posted, thrown,
          hashSteps, lastOp

vars == <<sender, recipient, amount, message, txHashForProof,
          merkleProofResult, chain, shownHash, calls, posted, thrown,
          hashSteps, lastOp>>

----------------------------------------------------------------------------
(* Bounds *)

MaxProofLen == 2

----------------------------------------------------------------------------
(* JavaScript values: strings, numbers, undefined, arrays, null *)

Str(s) == [t |-> "string", v |-> s]

Num(n) == [t |-> "number", v |-> <<n>>]

Undef == [t |-> "undefined", v |-> <<>>]

List(xs) == [t |-> "array", v |-> xs]

Null == [t |-> "null"]

(* the initial form values "Alice" and "Bob" *)
Alice == <<65, 108, 105, 99, 101>>

Bob == <<66, 111, 98>>

(* strict equality (===) of two JavaScript values of the kinds above *)
StrictEq(a, b) == a.t = b.t /\ a.v = b.v

MinOf(a, b) == IF a <= b THEN a ELSE b

(* a < b on strings: comparison by code units, a proper prefix is smaller *)
StrLess(a, b) ==
    \E i \in 1..(MinOf(Len(a), Len(b)) + 1) :
        /\ \A j \in 1..(i - 1) : a[j] = b[j]
        /\ \/ (i > Len(a) /\ i <= Len(b))
           \/ (i <= Len(a) /\ i <= Len(b) /\ a[i] < b[i])

----------------------------------------------------------------------------
(* sha256 of js-sha256, idealised as collision free *)

RECURSIVE SumCodes(_)
SumCodes(s) == IF s = <<>> THEN 0 ELSE Head(s) + SumCodes(Tail(s))

HashMark == 35

Sha256(s) == <<97 + (SumCodes(s) % 4), HashMark>> \o s

(* hasher.update(x) rejects values that are not strings (numbers, undefined) *)
Updatable(x) == x.t = "string"

----------------------------------------------------------------------------
(* messages shown by showMessage *)

Msg(text, isError) == [text |-> text, arg |-> 0, isError |-> isError]

NoMessage == Msg("", FALSE)

MsgNoData == Msg("No Merkle proof data to verify. Please fetch one first.", TRUE)

MsgVerified == Msg("Merkle Proof verified successfully! The transaction exists in the block.", FALSE)

MsgFailed == Msg("Merkle Proof verification FAILED! This transaction might not be in the block, or the proof is invalid.", TRUE)

----------------------------------------------------------------------------
(* verifyMerkleProofClientSide *)

(* the values a for...of loop visits; a value that is not iterable throws *)
Iterable(x) == x.t \in {"array", "string"}

Elements(x) == IF x.t = "array" THEN x.v ELSE [i \in 1..Len(x.v) |-> Str(<<x.v[i]>>)]

(* the loop body with the comparison turned around: the larger value first *)
HashPairLargerFirst(currentHash, siblingHash) ==
    IF StrLess(siblingHash, currentHash)
    THEN Sha256(currentHash \o siblingHash)
    ELSE Sha256(siblingHash \o currentHash)

(* one pass of the loop body: both values are fed to the hasher, the smaller first *)
HashPair(currentHash, siblingHash) ==
    IF StrLess(currentHash, siblingHash)
    THEN Sha256(currentHash \o siblingHash)
    ELSE Sha256(siblingHash \o currentHash)

(* the loop stopping one entry early *)
RECURSIVE ProofLoopSkipLast(_, _, _)
ProofLoopSkipLast(currentHash, elems, i) ==
    IF i >= Len(elems)
    THEN [currentHash |-> currentHash, threw |-> FALSE, steps |-> i - 1]
    ELSE IF ~Updatable(currentHash) \/ ~Updatable(elems[i])
         THEN [currentHash |-> currentHash, threw |-> TRUE, steps |-> i - 1]
         ELSE ProofLoopSkipLast(Str(HashPair(currentHash.v, elems[i].v)), elems, i + 1)

(* the loop assigning the new hash to a variable local to its body *)
RECURSIVE ProofLoopShadowed(_, _, _)
ProofLoopShadowed(currentHash, elems, i) ==
    IF i > Len(elems)
    THEN [currentHash |-> currentHash, threw |-> FALSE, steps |-> i - 1]
    ELSE IF ~Updatable(currentHash) \/ ~Updatable(elems[i])
         THEN [currentHash |-> currentHash, threw |-> TRUE, steps |-> i - 1]
         ELSE ProofLoopShadowed(currentHash, elems, i + 1)

RECURSIVE ProofLoop(_, _, _)
ProofLoop(currentHash, elems, i) ==
    IF i > Len(elems)
    THEN [currentHash |-> currentHash, threw |-> FALSE, steps |-> i - 1]
    ELSE IF ~Updatable(currentHash) \/ ~Updatable(elems[i])
         THEN [currentHash |-> currentHash, threw |-> TRUE, steps |-> i - 1]
         ELSE ProofLoop(Str(HashPair(currentHash.v, elems[i].v)), elems, i + 1)

(* the handler with an assignment in place of the final comparison *)
VerifyRunAssign(result) ==
    IF result = Null
    THEN [message |-> MsgNoData, threw |-> FALSE, steps |-> 0, shown |-> TRUE]
    ELSE IF ~Iterable(result.merkle_proof)
         THEN [message |-> NoMessage, threw |-> TRUE, steps |-> 0, shown |-> FALSE]
         ELSE LET r == ProofLoop(result.tx_hash, Elements(result.merkle_proof), 1)
              IN  IF r.threw
                  THEN [message |-> NoMessage, threw |-> TRUE, steps |-> r.steps, shown |-> FALSE]
                  ELSE [message |-> IF result.merkle_root.t = "string" /\ result.merkle_root.v # <<>>
                                    THEN MsgVerified ELSE MsgFailed,
                        threw |-> FALSE, steps |-> r.steps, shown |-> TRUE]

(* the handler reading the fields txHash, merkleRoot and proofPath *)
VerifyRunCamelCase(result) ==
    IF result = Null
    THEN [message |-> MsgNoData, threw |-> FALSE, steps |-> 0, shown |-> TRUE]
    ELSE IF ~Iterable(result.proofPath)
         THEN [message |-> NoMessage, threw |-> TRUE, steps |-> 0, shown |-> FALSE]
         ELSE LET r == ProofLoop(result.txHash, Elements(result.proofPath), 1)
              IN  IF r.threw
                  THEN [message |-> NoMessage, threw |-> TRUE, steps |-> r.steps, shown |-> FALSE]
                  ELSE [message |-> IF StrictEq(r.currentHash, result.merkleRoot)
                                    THEN MsgVerified ELSE MsgFailed,
                        threw |-> FALSE, steps |-> r.steps, shown |-> TRUE]

(* the handler's effect on a stored result: the message it shows, whether it
   ended in an uncaught exception, and how many hashes it computed *)
VerifyRun(result) ==
    IF result = Null
    THEN [message |-> MsgNoData, threw |-> FALSE, steps |-> 0, shown |-> TRUE]
    ELSE IF ~Iterable(result.merkle_proof)
         THEN [message |-> NoMessage, threw |-> TRUE, steps |-> 0, shown |-> FALSE]
         ELSE LET r == ProofLoop(result.tx_hash, Elements(result.merkle_proof), 1)
              IN  IF r.threw
                  THEN [message |-> NoMessage, threw |-> TRUE, steps |-> r.steps, shown |-> FALSE]
                  ELSE [message |-> IF StrictEq(r.currentHash, result.merkle_root)
                                    THEN MsgVerified ELSE MsgFailed,
                        threw |-> FALSE, steps |-> r.steps, shown |-> TRUE]

verifyMerkleProofClientSide ==
    LET run == VerifyRun(merkleProofResult)
    IN  /\ message' = IF run.shown THEN run.message ELSE message
        /\ thrown' = run.threw
        /\ hashSteps' = run.steps
        /\ lastOp' = "verifyMerkleProofClientSide"
        /\ UNCHANGED <<sender, recipient, amount, txHashForProof,
                       merkleProofResult, chain, shownHash, calls, posted>>

----------------------------------------------------------------------------
(* Proof objects as the ledger service may emit them.  A property that is
   absent reads as undefined, so every object carries every name. *)

ProofObject(names, leaf, path, root, index) ==
    [tx_hash      |-> IF names = "snake" THEN leaf  ELSE Undef,
     merkle_root  |-> IF names = "snake" THEN root  ELSE Undef,
     merkle_proof |-> IF names = "snake" THEN path  ELSE Undef,
     block_index  |-> IF names = "snake" THEN index ELSE Undef,
     txHash       |-> IF names = "camel" THEN leaf  ELSE Undef,
     merkleRoot   |-> IF names = "camel" THEN root  ELSE Undef,
     proofPath    |-> IF names = "camel" THEN path  ELSE Undef,
     blockIndex   |-> IF names = "camel" THEN index ELSE Undef]

SeqsUpTo(S, n) == UNION {[1..k -> S] : k \in 0..n}

StrList(p) == List([i \in 1..Len(p) |-> Str(p[i])])

(* the digests "aa", "bb", "cc", "dd" *)
Digests == {<<97, 97>>, <<98, 98>>, <<99, 99>>, <<100, 100>>}

(* strings that are not digests: "a", "zz", "aaa" *)
IllFormedStrings == {<<97>>, <<122, 122>>, <<97, 97, 97>>}

Paths == SeqsUpTo(Digests, MaxProofLen)

(* the sorted-concatenation rule of the proof path, as a fold from the leaf *)
Smaller(a, b) == IF StrLess(b, a) THEN b ELSE a

Larger(a, b) == IF StrLess(b, a) THEN a ELSE b

RECURSIVE RefFold(_, _)
RefFold(leaf, path) ==
    IF path = <<>> THEN leaf
    ELSE RefFold(Sha256(Smaller(leaf, Head(path)) \o Larger(leaf, Head(path))), Tail(path))

Roots == {RefFold(l, p) : l \in Digests, p \in Paths}

WellFormedResults ==
    {ProofObject("snake", Str(l), StrList(p), Str(r), Num(1)) :
        l \in Digests, p \in Paths, r \in Roots}

IllFormedResults ==
    {ProofObject("snake", Str(l), StrList(p), Str(r), Num(1)) :
        l \in IllFormedStrings \cup {<<97, 97>>},
        p \in SeqsUpTo(IllFormedStrings \cup {<<98, 98>>}, 1),
        r \in IllFormedStrings \cup {Sha256(<<97, 97, 98, 98>>), Sha256(<<97, 122, 122>>)}}

NonStringValues == {Undef, Num(7)}

MalformedResults ==
    {ProofObject("snake", l, List(p), r, Num(1)) :
        l \in NonStringValues \cup {Str(<<97, 97>>)},
        p \in SeqsUpTo(NonStringValues \cup {Str(<<98, 98>>)}, MaxProofLen),
        r \in {Undef, Str(<<97, 97>>)}}
    \cup
    {ProofObject("snake", Str(<<97, 97>>), p, Str(<<97, 97>>), Num(1)) :
        p \in NonStringValues \cup {Str(<<98, 98>>)}}

CamelCaseResults ==
    UNION {{ProofObject("camel", Str(l), StrList(p), Str(RefFold(l, p)), Num(1)),
            ProofObject("camel", Str(l), StrList(p), Str(l), Num(1))} :
              l \in Digests, p \in Paths}

VerifyInputs ==
    WellFormedResults \cup IllFormedResults \cup MalformedResults
        \cup CamelCaseResults \cup {Null}

----------------------------------------------------------------------------
(* The verifier on every stored result *)

InitVerify ==
    /\ sender = Alice
    /\ recipient = Bob
    /\ amount = Num(10)
    /\ message = NoMessage
    /\ txHashForProof = <<>>
    /\ merkleProofResult \in VerifyInputs
    /\ chain = <<>>
    /\ shownHash = <<>>
    /\ calls = <<>>
    /\ posted = <<>>
    /\ thrown = FALSE
    /\ hashSteps = 0
    /\ lastOp = ""

NextVerify == verifyMerkleProofClientSide

SpecVerify == InitVerify /\ [][NextVerify]_vars

Verified == lastOp = "verifyMerkleProofClientSide"

(* a stored result whose three fields have the types the verifier expects *)
WellTyped(r) ==
    /\ r # Null
    /\ r.tx_hash.t = "string"
    /\ r.merkle_root.t = "string"
    /\ r.merkle_proof.t = "array"
    /\ \A i \in 1..Len(r.merkle_proof.v) : r.merkle_proof.v[i].t = "string"

PathOf(r) == [i \in 1..Len(r.merkle_proof.v) |-> r.merkle_proof.v[i].v]

(* C1: on a stored result with a string leaf, a list of strings as path and a
   string root, the verdict is success exactly when folding the path over the
   leaf (smaller of current and sibling first, then hashed) gives the root *)
C1_CorrectPathAcceptance ==
    (Verified /\ WellTyped(merkleProofResult)) =>
        /\ ~thrown
        /\ message \in {MsgVerified, MsgFailed}
        /\ (message = MsgVerified) <=>
               (RefFold(merkleProofResult.tx_hash.v, PathOf(merkleProofResult))
                    = merkleProofResult.merkle_root.v)

C1_Witness ==
    /\ Verified
    /\ WellTyped(merkleProofResult)
    /\ Len(merkleProofResult.merkle_proof.v) = MaxProofLen
    /\ message = MsgVerified

(* C2: with an empty proof path the verdict is success iff the leaf equals the
   claimed root, and no hash is computed *)
C2_EmptyProof ==
    (Verified /\ merkleProofResult # Null /\ merkleProofResult.merkle_proof = List(<<>>)) =>
        /\ ~thrown
        /\ hashSteps = 0
        /\ (message = MsgVerified) <=>
               StrictEq(merkleProofResult.tx_hash, merkleProofResult.merkle_root)
        /\ (message = MsgFailed) <=>
               ~StrictEq(merkleProofResult.tx_hash, merkleProofResult.merkle_root)

C2_Witness ==
    /\ Verified
    /\ merkleProofResult # Null
    /\ merkleProofResult.merkle_proof = List(<<>>)
    /\ merkleProofResult.tx_hash = Str(<<97, 97>>)
    /\ merkleProofResult.merkle_root = Str(<<97, 97>>)
    /\ message = MsgVerified

C2_WitnessMismatch ==
    /\ Verified
    /\ merkleProofResult # Null
    /\ merkleProofResult.merkle_proof = List(<<>>)
    /\ merkleProofResult.tx_hash # merkleProofResult.merkle_root
    /\ message = MsgFailed

(* C4: the verifier never ends in an exception: whatever the stored result,
   it shows the success, the FAILED or the no-data message *)
C4_NeverThrows ==
    Verified => (~thrown /\ message \in {MsgVerified, MsgFailed, MsgNoData})

(* a stored result made of digests only *)
WellFormed(r) ==
    /\ WellTyped(r)
    /\ r.tx_hash.v \in Digests
    /\ r.merkle_root.v \in Roots
    /\ \A i \in 1..Len(r.merkle_proof.v) : r.merkle_proof.v[i].v \in Digests

(* the results that differ from r in the leaf, in one path entry or in the root *)
Tampered(r) ==
    {[r EXCEPT !.tx_hash = Str(d)] : d \in Digests \ {r.tx_hash.v}}
    \cup {[r EXCEPT !.merkle_root = Str(d)] : d \in Roots \ {r.merkle_root.v}}
    \cup UNION {{[r EXCEPT !.merkle_proof.v[i] = Str(d)] :
                    d \in Digests \ {r.merkle_proof.v[i].v}} :
                        i \in 1..Len(r.merkle_proof.v)}

(* C5: once a result made of digests is accepted, replacing its leaf, one
   entry of its path or its root by a different digest makes the verifier
   report FAILED *)
C5_TamperSensitivity ==
    (Verified /\ WellFormed(merkleProofResult) /\ message = MsgVerified) =>
        \A t \in Tampered(merkleProofResult) :
            VerifyRun(t).message = MsgFailed /\ ~VerifyRun(t).threw

(* leaf "aa", path ["bb", "cc"], accepted; ["bb", "dd"] is among the tampered *)
C5_Witness ==
    /\ Verified
    /\ message = MsgVerified
    /\ merkleProofResult # Null
    /\ merkleProofResult.tx_hash = Str(<<97, 97>>)
    /\ merkleProofResult.merkle_proof = StrList(<<(<<98, 98>>), (<<99, 99>>)>>)
    /\ [merkleProofResult EXCEPT !.merkle_proof = StrList(<<(<<98, 98>>), (<<100, 100>>)>>)]
           \in Tampered(merkleProofResult)

Reversed(p) == [i \in 1..Len(p) |-> p[Len(p) + 1 - i]]

PairwiseDifferent(p) == \A i, j \in 1..Len(p) : i # j => p[i] # p[j]

(* C6: once a result made of digests is accepted whose path has at least two
   entries, pairwise different, the same result with the path reversed is
   reported FAILED *)
C6_OrderSensitivity ==
    (/\ Verified
     /\ WellFormed(merkleProofResult)
     /\ message = MsgVerified
     /\ Len(merkleProofResult.merkle_proof.v) >= 2
     /\ PairwiseDifferent(merkleProofResult.merkle_proof.v)) =>
        LET r == [merkleProofResult EXCEPT
                      !.merkle_proof.v = Reversed(merkleProofResult.merkle_proof.v)]
        IN  VerifyRun(r).message = MsgFailed /\ ~VerifyRun(r).threw

C6_Witness ==
    /\ Verified
    /\ WellFormed(merkleProofResult)
    /\ message = MsgVerified
    /\ Len(merkleProofResult.merkle_proof.v) >= 2
    /\ PairwiseDifferent(merkleProofResult.merkle_proof.v)

(* a result that carries exactly txHash, merkleRoot, blockIndex, proofPath *)
HasCamelCaseFields(r) ==
    /\ r # Null
    /\ r.txHash # Undef /\ r.merkleRoot # Undef
    /\ r.proofPath # Undef /\ r.blockIndex # Undef
    /\ r.tx_hash = Undef /\ r.merkle_root = Undef
    /\ r.merkle_proof = Undef /\ r.block_index = Undef

(* a result that carries exactly tx_hash, merkle_root, block_index, merkle_proof *)
HasSnakeCaseFields(r) ==
    /\ r # Null
    /\ r.tx_hash # Undef /\ r.merkle_root # Undef
    /\ r.merkle_proof # Undef /\ r.block_index # Undef
    /\ r.txHash = Undef /\ r.merkleRoot = Undef
    /\ r.proofPath = Undef /\ r.blockIndex = Undef

(* C7 as stated: a result with the fields txHash, merkleRoot, blockIndex and
   proofPath whose path is correct is accepted *)
C7_CamelCaseAccepted ==
    (/\ Verified
     /\ HasCamelCaseFields(merkleProofResult)
     /\ merkleProofResult.txHash.t = "string"
     /\ merkleProofResult.proofPath.t = "array"
     /\ RefFold(merkleProofResult.txHash.v,
                [i \in 1..Len(merkleProofResult.proofPath.v) |->
                     merkleProofResult.proofPath.v[i].v])
            = merkleProofResult.merkleRoot.v) =>
        message = MsgVerified

(* C7 amended: the leaf is read from tx_hash, the root from merkle_root and
   the path from merkle_proof; a result with exactly the fields tx_hash,
   merkle_root, block_index and merkle_proof whose path is correct is
   accepted, whatever block_index holds *)
C7_SnakeCaseContract ==
    (/\ Verified
     /\ HasSnakeCaseFields(merkleProofResult)
     /\ WellTyped(merkleProofResult)
     /\ RefFold(merkleProofResult.tx_hash.v, PathOf(merkleProofResult))
            = merkleProofResult.merkle_root.v) =>
        /\ message = MsgVerified
        /\ \A b \in {Undef, Num(0), Num(2)} :
               VerifyRun([merkleProofResult EXCEPT !.block_index = b]).message = MsgVerified

C7_Witness ==
    /\ Verified
    /\ HasSnakeCaseFields(merkleProofResult)
    /\ WellTyped(merkleProofResult)
    /\ Len(merkleProofResult.merkle_proof.v) = MaxProofLen
    /\ RefFold(merkleProofResult.tx_hash.v, PathOf(merkleProofResult))
            = merkleProofResult.merkle_root.v
    /\ message = MsgVerified
    /\ ~thrown

----------------------------------------------------------------------------
(* calculateTxHash, applied to every transaction of the displayed chain *)

(* String(n) of a non-negative integer *)
RECURSIVE DecStr(_)
DecStr(n) == IF n < 10 THEN <<48 + n>> ELSE DecStr(n \div 10) \o <<48 + (n % 10)>>

(* the text of the template literal of calculateTxHash before ${tx.amount}:
   <span class="math-inline">{tx.sender}</span>{tx.recipient}
   (escaped braces and dots are literal characters, not substitutions) *)
TxTemplateText ==
    <<60, 115, 112, 97, 110, 32, 99, 108, 97, 115, 115, 61, 34, 109, 97,
      116, 104, 45, 105, 110, 108, 105, 110, 101, 34, 62, 123, 116, 120,
      46, 115, 101, 110, 100, 101, 114, 125, 60, 47, 115, 112, 97, 110,
      62, 123, 116, 120, 46, 114, 101, 99, 105, 112, 105, 101, 110, 116,
      125>>

calculateTxHash(tx) == Sha256(TxTemplateText \o DecStr(tx.amount))

Names == {Alice, Bob}

TxAmounts == {1, 10, 11}

MaxTxs == 2

Transactions == [sender : Names, recipient : Names, amount : TxAmounts]

ChainData ==
    {<<>>} \cup {<<[index |-> 1, transactions |-> txs]>> : txs \in SeqsUpTo(Transactions, MaxTxs)}

MsgChainLoaded(n) == [text |-> "Chain loaded successfully. Total blocks.", arg |-> n, isError |-> FALSE]

MsgChainError == Msg("Error fetching chain. Is the backend running?", TRUE)

(* the hashes the chain display shows, one per transaction of each block *)
RenderHashes(data) ==
    [b \in 1..Len(data) |->
        [i \in 1..Len(data[b].transactions) |-> calculateTxHash(data[b].transactions[i])]]

(* fetchChain, the response carrying the chain *)
fetchChain(data) ==
    /\ chain' = data
    /\ shownHash' = RenderHashes(data)
    /\ message' = MsgChainLoaded(Len(data))
    /\ lastOp' = "fetchChain"
    /\ UNCHANGED <<sender, recipient, amount, txHashForProof, merkleProofResult,
                   calls, posted, thrown, hashSteps>>

(* fetchChain, the request failing *)
fetchChainFails ==
    /\ message' = MsgChainError
    /\ lastOp' = "fetchChainFails"
    /\ UNCHANGED <<sender, recipient, amount, txHashForProof, merkleProofResult,
                   chain, shownHash, calls, posted, thrown, hashSteps>>

InitHash ==
    /\ sender = Alice
    /\ recipient = Bob
    /\ amount = Num(10)
    /\ message = NoMessage
    /\ txHashForProof = <<>>
    /\ merkleProofResult = Null
    /\ chain = <<>>
    /\ shownHash = <<>>
    /\ calls = <<>>
    /\ posted = <<>>
    /\ thrown = FALSE
    /\ hashSteps = 0
    /\ lastOp = ""

NextHash ==
    \/ \E data \in ChainData : fetchChain(data)
    \/ fetchChainFails

SpecHash == InitHash /\ [][NextHash]_vars

(* C3: the digest shown for a transaction is the hash of sender + recipient +
   decimal amount, with no separators *)
C3_HashOfConcatenation ==
    \A b \in 1..Len(chain) : \A i \in 1..Len(chain[b].transactions) :
        LET tx == chain[b].transactions[i]
        IN  shownHash[b][i] = Sha256(tx.sender \o tx.recipient \o DecStr(tx.amount))

----------------------------------------------------------------------------
(* The transaction form and createTransaction *)

MaxAmountLen == 3

MaxPosts == 1

IsDigit(c) == c \in 48..57

AllDigits(s) == \A i \in 1..Len(s) : IsDigit(s[i])

RECURSIVE DigitsValue(_)
DigitsValue(s) ==
    IF s = <<>> THEN 0
    ELSE 10 * DigitsValue(SubSeq(s, 1, Len(s) - 1)) + (s[Len(s)] - 48)

(* the numbers of the model: NaN, or a sign, an integer part and whether the
   fraction is non-zero *)
NaN == [nan |-> TRUE, neg |-> FALSE, ip |-> 0, frac |-> FALSE]

Number(neg, ip, frac) == [nan |-> FALSE, neg |-> neg, ip |-> ip, frac |-> frac]

HasSign(s) == s # <<>> /\ s[1] \in {43, 45}

Unsigned(s) == IF HasSign(s) THEN Tail(s) ELSE s

DotAt(s) == IF \E i \in 1..Len(s) : s[i] = 46
            THEN CHOOSE i \in 1..Len(s) : s[i] = 46 /\ \A j \in 1..(i - 1) : s[j] # 46
            ELSE 0

(* ToNumber of a string: "" is 0; otherwise an optional sign followed by
   digits, digits "." digits, digits "." or "." digits; anything else is NaN *)
StringToNumber(s) ==
    IF s = <<>> THEN Number(FALSE, 0, FALSE)
    ELSE LET u == Unsigned(s)
             neg == HasSign(s) /\ s[1] = 45
             d == DotAt(u)
             int == IF d = 0 THEN u ELSE SubSeq(u, 1, d - 1)
             fr == IF d = 0 THEN <<>> ELSE SubSeq(u, d + 1, Len(u))
         IN  IF AllDigits(int) /\ AllDigits(fr) /\ Len(int) + Len(fr) > 0
             THEN Number(neg, DigitsValue(int), \E i \in 1..Len(fr) : fr[i] # 48)
             ELSE NaN

ToNumber(x) == IF x.t = "number" THEN Number(FALSE, x.v[1], FALSE) ELSE StringToNumber(x.v)

ToString(x) == IF x.t = "number" THEN DecStr(x.v[1]) ELSE x.v

isNaN(x) == ToNumber(x).nan

(* x <= 0, the comparison being false on NaN *)
LessEqZero(x) ==
    LET n == ToNumber(x)
    IN  ~n.nan /\ (n.neg \/ (n.ip = 0 /\ ~n.frac))

LeadingDigits(s) ==
    IF \E i \in 1..Len(s) : ~IsDigit(s[i])
    THEN SubSeq(s, 1, (CHOOSE i \in 1..Len(s) :
                          ~IsDigit(s[i]) /\ \A j \in 1..(i - 1) : IsDigit(s[j])) - 1)
    ELSE s

(* parseInt(x): the text of x, an optional sign, then the leading digits;
   NaN when there is no leading digit *)
parseInt(x) ==
    LET s == ToString(x)
        digits == LeadingDigits(Unsigned(s))
    IN  IF digits = <<>> THEN NaN
        ELSE Number(HasSign(s) /\ s[1] = 45, DigitsValue(digits), FALSE)

(* the characters typed into the amount field: 0 5 - . x *)
AmountChars == {48, 53, 45, 46, 120}

AmountInputs == SeqsUpTo(AmountChars, MaxAmountLen)

SenderInputs == {<<>>, Alice}

RecipientInputs == {<<>>, Bob}

MsgFillIn == Msg("Please fill in all transaction details correctly.", TRUE)

MsgTxReply == Msg("(reply of the ledger service)", FALSE)

MsgTxError == Msg("Error creating transaction. Check backend.", TRUE)

setSender(v) ==
    /\ sender' = v
    /\ lastOp' = "setSender"
    /\ UNCHANGED <<recipient, amount, message, txHashForProof, merkleProofResult,
                   chain, shownHash, calls, posted, thrown, hashSteps>>

setRecipient(v) ==
    /\ recipient' = v
    /\ lastOp' = "setRecipient"
    /\ UNCHANGED <<sender, amount, message, txHashForProof, merkleProofResult,
                   chain, shownHash, calls, posted, thrown, hashSteps>>

setAmount(v) ==
    /\ amount' = Str(v)
    /\ lastOp' = "setAmount"
    /\ UNCHANGED <<sender, recipient, message, txHashForProof, merkleProofResult,
                   chain, shownHash, calls, posted, thrown, hashSteps>>

FormRejected == sender = <<>> \/ recipient = <<>> \/ isNaN(amount) \/ LessEqZero(amount)

(* createTransaction when the form is rejected *)
createTransactionRejected ==
    /\ FormRejected
    /\ message' = MsgFillIn
    /\ lastOp' = "createTransactionRejected"
    /\ UNCHANGED <<sender, recipient, amount, txHashForProof, merkleProofResult,
                   chain, shownHash, calls, posted, thrown, hashSteps>>

(* createTransaction up to the request it sends *)
createTransaction ==
    /\ ~FormRejected
    /\ Len(posted) < MaxPosts
    /\ posted' = Append(posted, [sender |-> sender, recipient |-> recipient,
                                 amount |-> parseInt(amount), pending |-> TRUE])
    /\ lastOp' = "createTransaction"
    /\ UNCHANGED <<sender, recipient, amount, message, txHashForProof,
                   merkleProofResult, chain, shownHash, calls, thrown, hashSteps>>

(* createTransaction resumed by the reply, or by the failure of the request *)
createTransactionReply(i, ok) ==
    /\ i \in 1..Len(posted)
    /\ posted[i].pending
    /\ posted' = [posted EXCEPT ![i].pending = FALSE]
    /\ message' = IF ok THEN MsgTxReply ELSE MsgTxError
    /\ lastOp' = "createTransactionReply"
    /\ UNCHANGED <<sender, recipient, amount, txHashForProof, merkleProofResult,
                   chain, shownHash, calls, thrown, hashSteps>>

InitTx ==
    /\ sender = Alice
    /\ recipient = Bob
    /\ amount = Num(10)
    /\ message = NoMessage
    /\ txHashForProof = <<>>
    /\ merkleProofResult = Null
    /\ chain = <<>>
    /\ shownHash = <<>>
    /\ calls = <<>>
    /\ posted = <<>>
    /\ thrown = FALSE
    /\ hashSteps = 0
    /\ lastOp = ""

NextTx ==
    \/ \E v \in SenderInputs : setSender(v)
    \/ \E v \in RecipientInputs : setRecipient(v)
    \/ \E v \in AmountInputs : setAmount(v)
    \/ createTransactionRejected
    \/ createTransaction
    \/ \E i \in 1..MaxPosts, ok \in BOOLEAN : createTransactionReply(i, ok)

SpecTx == InitTx /\ [][NextTx]_vars

(* C10: every transaction sent has a non-empty sender, a non-empty recipient
   and a positive integer amount *)
C10_WellFormedSubmissions ==
    \A i \in 1..Len(posted) :
        /\ posted[i].sender # <<>>
        /\ posted[i].recipient # <<>>
        /\ ~posted[i].amount.nan
        /\ ~posted[i].amount.neg
        /\ posted[i].amount.ip > 0

----------------------------------------------------------------------------
(* Proof lookup: getMerkleProof and the ledger service *)

MaxCalls == 2

(* the text of the template literal passed to fetch by getMerkleProof:
   <span class="math-inline">{API_URL}/get_merkle_proof/</span>{txHashForProof}
   (it holds no substitution: the entered hash is not part of it) *)
ProofUrlText ==
    <<60, 115, 112, 97, 110, 32, 99, 108, 97, 115, 115, 61, 34, 109, 97,
      116, 104, 45, 105, 110, 108, 105, 110, 101, 34, 62, 123, 65, 80,
      73, 95, 85, 82, 76, 125, 47, 103, 101, 116, 95, 109, 101, 114,
      107, 108, 101, 95, 112, 114, 111, 111, 102, 47, 60, 47, 115, 112,
      97, 110, 62, 123, 116, 120, 72, 97, 115, 104, 70, 111, 114, 80,
      114, 111, 111, 102, 125>>

RequestUrl(txHash) == ProofUrlText

(* "/get_merkle_proof/" *)
ProofRoute == <<47, 103, 101, 116, 95, 109, 101, 114, 107, 108, 101, 95, 112,
                114, 111, 111, 102, 47>>

(* the digest a request names: what follows the route in its url *)
KeyOf(url) ==
    IF \E i \in 1..Len(url) : SubSeq(url, i, i + Len(ProofRoute) - 1) = ProofRoute
    THEN LET i == CHOOSE k \in 1..Len(url) : SubSeq(url, k, k + Len(ProofRoute) - 1) = ProofRoute
         IN  SubSeq(url, i + Len(ProofRoute), Len(url))
    ELSE <<>>

LookupInputs == {<<>>, <<97, 97>>, <<98, 98>>, <<99, 99>>}

(* the ledger: "aa" and "bb" are in a mined block, "cc" is not *)
ProofOfAA ==
    ProofObject("snake", Str(<<97, 97>>), StrList(<<(<<98, 98>>), (<<99, 99>>)>>),
                Str(RefFold(<<97, 97>>, <<(<<98, 98>>), (<<99, 99>>)>>)), Num(1))

ProofOfBB ==
    ProofObject("snake", Str(<<98, 98>>), StrList(<<(<<97, 97>>)>>),
                Str(RefFold(<<98, 98>>, <<(<<97, 97>>)>>)), Num(1))

NotFound == [status |-> "notfound", data |-> Null]

Found(p) == [status |-> "found", data |-> p]

Failed == [status |-> "error", data |-> Null]

Ledger(key) ==
    IF key = <<97, 97>> THEN Found(ProofOfAA)
    ELSE IF key = <<98, 98>> THEN Found(ProofOfBB)
    ELSE NotFound

(* fetchProof(txDigest) -> MerkleProofResult | NotFound.  A request that names
   a digest gets the ledger's answer for it; what the receiving host answers to
   a request that names none is not determined by this program. *)
ServiceAnswers(url) ==
    IF KeyOf(url) \in Digests
    THEN {Ledger(KeyOf(url))}
    ELSE {NotFound, Found(ProofOfAA), Found(ProofOfBB)}

MsgEnterHash == Msg("Please enter a transaction hash to get its Merkle proof.", TRUE)

MsgProofNotFound == Msg("Transaction or Merkle proof not found in any block. Did you mine it?", TRUE)

MsgProofFetched == Msg("Merkle proof fetched. Now you can verify it client-side.", FALSE)

MsgProofError == Msg("Error fetching Merkle proof. Check backend or hash format.", TRUE)

setTxHashForProof(v) ==
    /\ txHashForProof' = v
    /\ lastOp' = "setTxHashForProof"
    /\ UNCHANGED <<sender, recipient, amount, message, merkleProofResult,
                   chain, shownHash, calls, posted, thrown, hashSteps>>

(* getMerkleProof with no hash entered *)
getMerkleProofEmpty ==
    /\ txHashForProof = <<>>
    /\ Len(calls) < MaxCalls
    /\ message' = MsgEnterHash
    /\ merkleProofResult' = Null
    /\ calls' = Append(calls, [digest |-> txHashForProof, url |-> <<>>,
                               status |-> "empty", data |-> Null])
    /\ lastOp' = "getMerkleProofEmpty"
    /\ UNCHANGED <<sender, recipient, amount, txHashForProof, chain, shownHash,
                   posted, thrown, hashSteps>>

(* getMerkleProof up to the request it sends *)
getMerkleProof ==
    /\ txHashForProof # <<>>
    /\ Len(calls) < MaxCalls
    /\ merkleProofResult' = Null
    /\ calls' = Append(calls, [digest |-> txHashForProof,
                               url |-> RequestUrl(txHashForProof),
                               status |-> "pending", data |-> Null])
    /\ lastOp' = "getMerkleProof"
    /\ UNCHANGED <<sender, recipient, amount, message, txHashForProof, chain,
                   shownHash, posted, thrown, hashSteps>>

(* getMerkleProof resumed by the service's answer: 404, or the proof object *)
getMerkleProofAnswer(i, answer) ==
    /\ i \in 1..Len(calls)
    /\ calls[i].status = "pending"
    /\ answer \in ServiceAnswers(calls[i].url)
    /\ calls' = [calls EXCEPT ![i].status = answer.status, ![i].data = answer.data]
    /\ merkleProofResult' = answer.data
    /\ message' = IF answer.status = "notfound" THEN MsgProofNotFound ELSE MsgProofFetched
    /\ lastOp' = "getMerkleProofAnswer"
    /\ UNCHANGED <<sender, recipient, amount, txHashForProof, chain, shownHash,
                   posted, thrown, hashSteps>>

(* getMerkleProof resumed by the failure of the request *)
getMerkleProofFails(i) ==
    /\ i \in 1..Len(calls)
    /\ calls[i].status = "pending"
    /\ calls' = [calls EXCEPT ![i].status = Failed.status, ![i].data = Failed.data]
    /\ merkleProofResult' = Null
    /\ message' = MsgProofError
    /\ lastOp' = "getMerkleProofFails"
    /\ UNCHANGED <<sender, recipient, amount, txHashForProof, chain, shownHash,
                   posted, thrown, hashSteps>>

Init ==
    /\ sender = Alice
    /\ recipient = Bob
    /\ amount = Num(10)
    /\ message = NoMessage
    /\ txHashForProof = <<>>
    /\ merkleProofResult = Null
    /\ chain = <<>>
    /\ shownHash = <<>>
    /\ calls = <<>>
    /\ posted = <<>>
    /\ thrown = FALSE
    /\ hashSteps = 0
    /\ lastOp = ""

Next ==
    \/ \E v \in LookupInputs : setTxHashForProof(v)
    \/ getMerkleProofEmpty
    \/ getMerkleProof
    \/ \E i \in 1..MaxCalls : \E answer \in {NotFound, Found(ProofOfAA), Found(ProofOfBB)} :
           getMerkleProofAnswer(i, answer)
    \/ \E i \in 1..MaxCalls : getMerkleProofFails(i)
    \/ verifyMerkleProofClientSide

Spec == Init /\ [][Next]_vars

(* C8: requests sent for different digests differ, a completed call stores
   the ledger's answer for its digest, and a call with no digest entered
   sends no request and stores nothing *)
C8_LookupKeyedByDigest ==
    \A i \in 1..Len(calls) :
        /\ \A j \in 1..Len(calls) :
               (/\ calls[i].status # "empty" /\ calls[j].status # "empty"
                /\ calls[i].digest # calls[j].digest) => calls[i].url # calls[j].url
        /\ calls[i].status = "found" => calls[i].data = Ledger(calls[i].digest).data
        /\ calls[i].status = "empty" => calls[i].digest = <<>> /\ calls[i].url = <<>>

(* C9: once no call is outstanding, the stored result is the outcome of the
   call issued last *)
C9_LastRequestWins ==
    (calls # <<>> /\ \A i \in 1..Len(calls) : calls[i].status # "pending") =>
        merkleProofResult = calls[Len(calls)].data

====
